---- MODULE Spec2Model ----
(***************************************************************************)
(* A model of python_baserow_simple: the BaserowApi client and the pure    *)
(* function format_value.  The client is single-threaded and synchronous,  *)
(* so every public method is one atomic action; the remote service is the  *)
(* environment and its answers are chosen nondeterministically per call.   *)
(* A call leaves a record of itself (call, requests, result) for the       *)
(* properties to read; the caller takes the outcome (TakeResult) before    *)
(* making the next call.                                                   *)
(*                                                                         *)
(* JSON / Python values are tagged records, so that values of different    *)
(* Python types can be told apart:                                         *)
(*   None -> [k |-> "null"]          int  -> [k |-> "int", i |-> n]        *)
(*   str  -> [k |-> "str", s |-> s]  list -> [k |-> "list", xs |-> <<>>]   *)
(*   dict -> [k |-> "dict", d |-> f], f a function on a set of strings     *)
(***************************************************************************)
EXTENDS Integers, Sequences, FiniteSets, TLC

VARIABLES
    _fields,    \* BaserowApi._fields: table id -> cached field list
    call,       \* the last public call and its arguments
    requests,   \* the HTTP requests that call issued, in order, with the answers
    result      \* what the call gave its caller: a return value or a raise

vars == <<_fields, call, requests, result>>

----------------------------------------------------------------------------
(* Bounds of the model. *)

MaxPages == 2
MaxSeen == 1
MaxEntries == 2

----------------------------------------------------------------------------
(* Python values. *)

None == [k |-> "null"]
PyInt(n) == [k |-> "int", i |-> n]
PyStr(s) == [k |-> "str", s |-> s]
PyList(xs) == [k |-> "list", xs |-> xs]
PyDict(d) == [k |-> "dict", d |-> d]

\* The wire form of a select option or of a linked row: {"id": n, "value": s}
Item(id, value) == PyDict(("id" :> PyInt(id)) @@ ("value" :> PyStr(value)))

\* bool(v) as Python's `if v`, `v or []` and `:=` tests compute it
Truthy(v) ==
    CASE v.k = "null" -> FALSE
      [] v.k = "int" -> v.i # 0
      [] v.k = "str" -> v.s # ""
      [] v.k = "list" -> v.xs # <<>>
      [] OTHER -> TRUE

\* Outcomes of a call
Return(v) == [k |-> "return", v |-> v]
Raise(e) == [k |-> "raise", e |-> e]

Range(f) == {f[x] : x \in DOMAIN f}

\* dict.get(key): None when the key is absent
Get(d, key) == IF key \in DOMAIN d THEN d[key] ELSE None

----------------------------------------------------------------------------
(* The remote schema: field descriptors as the fields endpoint lists them. *)

Tables == {1, 2}

Options == << [id |-> 1, value |-> "a"], [id |-> 2, value |-> "b"] >>

Field(name, type, read_only, select_options, link_row_table_id) ==
    [name |-> name, type |-> type, read_only |-> read_only,
     select_options |-> select_options, link_row_table_id |-> link_row_table_id]

FStatus == Field("status", "single_select", FALSE, Options, 0)
FTags == Field("tags", "multiple_select", FALSE, Options, 0)
FCalc == Field("calc", "formula", TRUE, <<>>, 0)
FGrade == Field("grade", "single_select", TRUE, Options, 0)
FPeer == Field("peer", "link_row", FALSE, <<>>, 1)
FOther == Field("other", "link_row", FALSE, <<>>, 2)
FName == Field("name", "text", FALSE, <<>>, 0)
FBack == Field("back", "link_row", FALSE, <<>>, 1)

\* The field lists the service may answer with for a table (the remote
\* schema can change between two fetches).
Schemas(t) ==
    IF t = 1
    THEN { <<FStatus, FTags, FCalc, FGrade, FPeer, FOther>>,
           <<FStatus, FTags, FCalc, FPeer, FOther, FBack>> }
    ELSE { <<FName, FBack>> }

----------------------------------------------------------------------------
(* HTTP requests, as logged with the answer the service gave. *)

NoBody == [k |-> "none"]

\* kind: "fields", "listing" (page: which page URL), "row" (row: which row
\* id), "batch"; body: the JSON sent; status, resp: the answer
Req(method, kind, table, row, page, body, status, resp) ==
    [method |-> method, kind |-> kind, table |-> table, row |-> row,
     page |-> page, body |-> body, status |-> status, resp |-> resp]

\* The JSON body of an error answer
ErrorBody == PyDict(("error" :> PyStr("ERROR")) @@ ("detail" :> PyStr("failed")))

----------------------------------------------------------------------------
(* format_value *)

\* format_value without the raise for a malformed single_select
format_value_lenient(raw_value, field_info) ==
    IF field_info.type = "single_select"
    THEN IF raw_value.k = "dict" THEN Return(raw_value.d["value"])
         ELSE Return(raw_value)
    ELSE IF field_info.type = "multiple_select"
    THEN IF raw_value.k = "list"
         THEN Return(PyList([i \in DOMAIN raw_value.xs |-> raw_value.xs[i].d["value"]]))
         ELSE Raise("RuntimeError")
    ELSE IF field_info.type = "link_row"
    THEN IF raw_value.k = "list"
         THEN Return(PyList([i \in DOMAIN raw_value.xs |-> raw_value.xs[i].d["id"]]))
         ELSE Raise("RuntimeError")
    ELSE Return(raw_value)

format_value(raw_value, field_info) ==
    IF field_info.type = "single_select"
    THEN IF raw_value.k = "dict" THEN Return(raw_value.d["value"])
         ELSE IF raw_value.k = "null" THEN Return(raw_value)
         ELSE Raise("RuntimeError")
    ELSE IF field_info.type = "multiple_select"
    THEN IF raw_value.k = "list"
         THEN Return(PyList([i \in DOMAIN raw_value.xs |-> raw_value.xs[i].d["value"]]))
         ELSE Raise("RuntimeError")
    ELSE IF field_info.type = "link_row"
    THEN IF raw_value.k = "list"
         THEN Return(PyList([i \in DOMAIN raw_value.xs |-> raw_value.xs[i].d["id"]]))
         ELSE Raise("RuntimeError")
    ELSE Return(raw_value)

----------------------------------------------------------------------------
(* The schema cache. *)

\* What the service answers to a fields request for table t
FieldsAnswers(t) ==
    {[status |-> "2xx", body |-> PyList(s)] : s \in Schemas(t)}
        \cup {[status |-> "non2xx", body |-> ErrorBody]}

\* The answers the service holds ready for the fields requests of one call:
\* one for every table in T (the tables the cache does not hold)
RECURSIVE FieldsAnswersFor(_)
FieldsAnswersFor(T) ==
    IF T = {} THEN {<<>>}
    ELSE LET t == CHOOSE x \in T : TRUE
         IN  {(t :> a) @@ fa : a \in FieldsAnswers(t), fa \in FieldsAnswersFor(T \ {t})}

\* _get_fields: one GET, raise_for_status, the JSON body
_get_fields(table_id, ans) ==
    [out |-> IF ans.status = "2xx" THEN Return(ans.body.xs) ELSE Raise("HTTPError"),
     reqs |-> << Req("GET", "fields", table_id, 0, 0, NoBody, ans.status, ans.body) >>]

\* get_fields that stores an empty field list when the fetch fails
get_fields_caching_failure(c, table_id, fa) ==
    IF table_id \notin DOMAIN c
    THEN LET f == _get_fields(table_id, fa[table_id])
         IN  [out |-> f.out, reqs |-> f.reqs,
              cache |-> (table_id :> IF f.out.k = "return" THEN f.out.v ELSE <<>>) @@ c]
    ELSE [out |-> Return(c[table_id]), reqs |-> <<>>, cache |-> c]

\* get_fields on cache c: the outcome, the requests issued and the cache left
get_fields(c, table_id, fa) ==
    IF table_id \notin DOMAIN c
    THEN LET f == _get_fields(table_id, fa[table_id])
         IN  [out |-> f.out, reqs |-> f.reqs,
              cache |-> IF f.out.k = "return"
                        THEN (table_id :> f.out.v) @@ c ELSE c]
    ELSE [out |-> Return(c[table_id]), reqs |-> <<>>, cache |-> c]

\* writable_fields
writable_fields(c, table_id, fa) ==
    LET g == get_fields(c, table_id, fa)
    IN  IF g.out.k = "raise" THEN g
        ELSE [g EXCEPT !.out = Return(SelectSeq(g.out.v, LAMBDA f : ~f.read_only))]

----------------------------------------------------------------------------
(* The rows of the remote tables, in wire form. *)

RowIds == {1, 2, 3}

\* Row 3 of table 1 carries malformed select values (bare strings).
ServiceRow(t, id) ==
    IF t = 1
    THEN PyDict(("id" :> PyInt(id))
             @@ ("status" :> IF id = 3 THEN PyStr("a") ELSE Item(id, Options[id].value))
             @@ ("tags" :> IF id = 1 THEN PyList(<<Item(2, "b"), Item(1, "a")>>)
                           ELSE PyList(<<>>))
             @@ ("calc" :> PyInt(id))
             @@ ("grade" :> IF id = 2 THEN PyStr("b") ELSE None)
             @@ ("peer" :> IF id = 1 THEN PyList(<<Item(2, "r2")>>) ELSE PyList(<<>>))
             @@ ("other" :> IF id = 3 THEN PyList(<<>>)
                            ELSE PyList(<<Item(1, "n1"), Item(2, "n2")>>)))
    ELSE PyDict(("id" :> PyInt(id))
             @@ ("name" :> PyStr("n"))
             @@ ("back" :> IF id = 1 THEN PyList(<<Item(1, "r1")>>) ELSE PyList(<<>>)))

----------------------------------------------------------------------------
(* Paginated listing. *)

\* A page URL: a non-empty string, named by the page it addresses
Url(i) == [k |-> "url", page |-> i]

\* The rows a listing page may carry
PageContents(t) ==
    { <<ServiceRow(t, 1)>>, <<ServiceRow(t, 2), ServiceRow(t, 3)>>,
      <<ServiceRow(t, 2), ServiceRow(t, 1)>> }

Page(results, next) == PyDict(("results" :> PyList(results)) @@ ("next" :> next))

\* The listing endpoint of table t: a chain of n pages, each page's `next`
\* the URL of the following page and the last page's `next` null; or such a
\* chain whose last URL is answered with a body that has no `results`.
Listings ==
    [t \in Tables |->
        UNION { { [i \in 1..n |->
                     IF i = n /\ broken THEN ErrorBody
                     ELSE Page(c[i], IF i < n THEN Url(i + 1) ELSE None)]
                  : c \in [1..n -> PageContents(t)], broken \in BOOLEAN }
                : n \in 1..MaxPages }]

\* The status a listing answer comes with: an error body is a non-2xx answer
ListingStatus(data) == IF "results" \in DOMAIN data.d THEN "2xx" ELSE "non2xx"

\* _get_data that does not follow `next`
_get_data_first_page(table_id, listing, page) ==
    LET data == listing[page]
        req == Req("GET", "listing", table_id, 0, page, NoBody, ListingStatus(data), data)
    IN  IF "results" \notin DOMAIN data.d
        THEN [out |-> Raise("RuntimeError"), reqs |-> <<req>>]
        ELSE [out |-> Return(data.d["results"].xs), reqs |-> <<req>>]

\* _get_data(url) with paginated=True: GET the page, no raise_for_status,
\* follow `next` recursively
RECURSIVE _get_data(_, _, _)
_get_data(table_id, listing, page) ==
    LET data == listing[page]
        req == Req("GET", "listing", table_id, 0, page, NoBody, ListingStatus(data), data)
    IN  IF "results" \notin DOMAIN data.d
        THEN [out |-> Raise("RuntimeError"), reqs |-> <<req>>]
        ELSE IF Truthy(data.d["next"])
        THEN LET rest == _get_data(table_id, listing, data.d["next"].page)
             IN  [out |-> IF rest.out.k = "raise" THEN rest.out
                          ELSE Return(data.d["results"].xs \o rest.out.v),
                  reqs |-> <<req>> \o rest.reqs]
        ELSE [out |-> Return(data.d["results"].xs), reqs |-> <<req>>]

\* {f["name"]: f for f in fields}
NamesOf(fields) ==
    [n \in {fields[i].name : i \in DOMAIN fields} |->
        fields[CHOOSE i \in DOMAIN fields :
                  /\ fields[i].name = n
                  /\ \A j \in DOMAIN fields : fields[j].name = n => j <= i]]

\* {k: format_value(v, names[k]) for k, v in d.items() if k in names}, or
\* the raise of the first format_value that raises
format_row(d, names) ==
    LET keys == DOMAIN d \cap DOMAIN names
        bad == {k \in keys : format_value(d[k], names[k]).k = "raise"}
    IN  IF bad # {} THEN Raise("RuntimeError")
        ELSE Return(PyDict([k \in keys |-> format_value(d[k], names[k]).v]))

\* get_data
get_data(c, table_id, writable_only, fa, listing) ==
    LET g == IF writable_only THEN writable_fields(c, table_id, fa)
             ELSE get_fields(c, table_id, fa)
    IN  IF g.out.k = "raise" THEN g
        ELSE LET names == NamesOf(g.out.v)
                 p == _get_data(table_id, listing, 1)
                 reqs == g.reqs \o p.reqs
             IN  IF p.out.k = "raise"
                 THEN [out |-> p.out, reqs |-> reqs, cache |-> g.cache]
                 ELSE LET data == p.out.v
                          ids == {data[i].d["id"].i : i \in DOMAIN data}
                          last(id) == CHOOSE i \in DOMAIN data :
                                         /\ data[i].d["id"].i = id
                                         /\ \A j \in DOMAIN data :
                                                data[j].d["id"].i = id => j <= i
                      IN  IF \E i \in DOMAIN data : format_row(data[i].d, names).k = "raise"
                          THEN [out |-> Raise("RuntimeError"), reqs |-> reqs,
                                cache |-> g.cache]
                          ELSE [out |-> Return([k |-> "map",
                                                d |-> [id \in ids |->
                                                        format_row(data[last(id)].d, names).v]]),
                                reqs |-> reqs, cache |-> g.cache]

----------------------------------------------------------------------------
(* Single-entry read with link hydration. *)

\* The answer to GET row entry_id of table t; the service answers non-2xx
\* for the tables in `failing`
RowAnswer(t, entry_id, failing) ==
    IF t \in failing THEN [status |-> "non2xx", body |-> ErrorBody]
    ELSE [status |-> "2xx", body |-> ServiceRow(t, entry_id)]

\* _get_data(url, paginated=False): GET the row, no raise_for_status, the
\* JSON body whatever the status
_get_data_row(table_id, entry_id, ans) ==
    [out |-> Return(ans.body),
     reqs |-> << Req("GET", "row", table_id, entry_id, 0, NoBody, ans.status, ans.body) >>]

\* seen_tables is None or a list of table ids.  `seen_tables or []` is the
\* caller's own list object when that list is non-empty (then the append of
\* table_id, and every append a recursive call makes, is visible through
\* seen_tables too), and a fresh list otherwise.  st.next is the current
\* content of seen_tables_next; the `seen` a call gives back is the content
\* its seen_tables argument is left with.
RECURSIVE get_entry(_, _, _, _, _, _, _)
RECURSIVE hydrate_ids(_, _, _, _, _, _)
RECURSIVE hydrate_fields(_, _, _, _, _, _, _)

\* [get_entry(linked_table_id, e_id["id"], linked=False,
\*            seen_tables=seen_tables_next) for e_id in ids], from ids[i] on
hydrate_ids(st, linked_table_id, ids, i, fa, failing) ==
    IF i > Len(ids) \/ st.out.k = "raise" THEN st
    ELSE LET e == get_entry(st.cache, linked_table_id, ids[i].d["id"].i, FALSE,
                            PyList(st.next), fa, failing)
         IN  hydrate_ids([out |-> IF e.out.k = "raise" THEN e.out
                                  ELSE Return(Append(st.out.v, e.out.v)),
                          reqs |-> st.reqs \o e.reqs,
                          cache |-> e.cache,
                          next |-> e.seen.xs],
                         linked_table_id, ids, i + 1, fa, failing)

\* the loop over link_fields, from link_fields[j] on
hydrate_fields(st, data, link_fields, j, seen_tables, fa, failing) ==
    IF j > Len(link_fields) \/ st.out.k = "raise" THEN st
    ELSE LET field == link_fields[j]
             linked_table_id == field.link_row_table_id
             cur_seen == IF Truthy(seen_tables) THEN PyList(st.next) ELSE seen_tables
             ids == Get(data.d, field.name)
         IN  IF /\ ~Truthy(cur_seen) \/ linked_table_id \notin Range(cur_seen.xs)
                /\ Truthy(ids)
             THEN LET h == hydrate_ids([st EXCEPT !.out = Return(<<>>)],
                                       linked_table_id, ids.xs, 1, fa, failing)
                      st2 == IF h.out.k = "raise" THEN h
                             ELSE [h EXCEPT !.out =
                                     Return(PyDict((field.name :> PyList(h.out.v))
                                                      @@ st.out.v.d))]
                  IN  hydrate_fields(st2, data, link_fields, j + 1, seen_tables,
                                     fa, failing)
             ELSE hydrate_fields(st, data, link_fields, j + 1, seen_tables,
                                 fa, failing)

get_entry(c, table_id, entry_id, linked, seen_tables, fa, failing) ==
    LET r == _get_data_row(table_id, entry_id, RowAnswer(table_id, entry_id, failing))
        data == r.out.v
        g == get_fields(c, table_id, fa)
        reqs == r.reqs \o g.reqs
    IN  IF g.out.k = "raise"
        THEN [out |-> g.out, reqs |-> reqs, cache |-> g.cache, seen |-> seen_tables]
        ELSE LET fields == g.out.v
                 formatted_data == format_row(data.d, NamesOf(fields))
             IN  IF formatted_data.k = "raise"
                 THEN [out |-> formatted_data, reqs |-> reqs, cache |-> g.cache,
                       seen |-> seen_tables]
                 ELSE LET seen_tables_next ==
                              IF Truthy(seen_tables)
                              THEN Append(seen_tables.xs, table_id)
                              ELSE <<table_id>>
                          st == [out |-> formatted_data, reqs |-> reqs,
                                 cache |-> g.cache, next |-> seen_tables_next]
                          h == IF linked
                               THEN hydrate_fields(st, data,
                                        SelectSeq(fields, LAMBDA f : f.type = "link_row"),
                                        1, seen_tables, fa, failing)
                               ELSE st
                      IN  [out |-> h.out, reqs |-> h.reqs, cache |-> h.cache,
                           seen |-> IF Truthy(seen_tables) THEN PyList(h.next)
                                    ELSE seen_tables]

\* The lists of table ids a caller may pass as seen_tables
RECURSIVE SeqsUpTo(_, _)
SeqsUpTo(S, n) ==
    IF n = 0 THEN {<<>>}
    ELSE SeqsUpTo(S, n - 1) \cup {Append(q, x) : q \in SeqsUpTo(S, n - 1), x \in S}

SeenArgs == {None} \cup {PyList(q) : q \in SeqsUpTo(Tables, MaxSeen)}

----------------------------------------------------------------------------
(* Row write. *)

\* convert_option that passes an unmatched value on instead of raising
convert_option_lenient(v, opts) ==
    IF v.k = "int" THEN Return(v)
    ELSE LET hits == {i \in DOMAIN opts : PyStr(opts[i].value) = v}
         IN  IF hits # {}
             THEN Return(PyInt(opts[CHOOSE i \in hits : \A j \in hits : i <= j].id))
             ELSE Return(v)

\* convert_option, the closure of _convert_selects
convert_option(v, opts) ==
    IF v.k = "int" THEN Return(v)
    ELSE LET hits == {i \in DOMAIN opts : PyStr(opts[i].value) = v}
         IN  IF hits # {}
             THEN Return(PyInt(opts[CHOOSE i \in hits : \A j \in hits : i <= j].id))
             ELSE Raise("RuntimeError")

\* the loop over a multiple_select value, from cur_value[i] on; acc is new_value
RECURSIVE convert_each(_, _, _, _)
convert_each(cur_value, opts, i, acc) ==
    IF i > Len(cur_value) THEN Return(PyList(acc))
    ELSE LET conv_value == convert_option(cur_value[i], opts)
         IN  IF conv_value.k = "raise" THEN conv_value
             ELSE convert_each(cur_value, opts, i + 1, Append(acc, conv_value.v))

\* the condition without the read_only test
convertible_any(field, data_conv) == field.name \in DOMAIN data_conv

\* the condition under which _convert_selects looks at a field
convertible(field, data_conv) ==
    ~field.read_only /\ field.name \in DOMAIN data_conv

\* the loop of _convert_selects over fields, from fields[j] on; data_conv is
\* the copy being converted.  (A multiple_select value that is neither None
\* nor a list is an int in this model: iterating it is a TypeError.)
RECURSIVE convert_from(_, _, _)
convert_from(data_conv, fields, j) ==
    IF j > Len(fields) THEN Return(PyDict(data_conv))
    ELSE LET field == fields[j]
             name == field.name
         IN  IF convertible(field, data_conv)
             THEN LET cur_value == data_conv[name]
                  IN  IF cur_value = None \/ cur_value = PyList(<<>>)
                      THEN convert_from(data_conv, fields, j + 1)
                      ELSE IF field.type = "single_select"
                      THEN LET conv == convert_option(cur_value, field.select_options)
                           IN  IF conv.k = "raise" THEN conv
                               ELSE convert_from([data_conv EXCEPT ![name] = conv.v],
                                                 fields, j + 1)
                      ELSE IF field.type = "multiple_select"
                      THEN LET conv == IF cur_value.k = "list"
                                       THEN convert_each(cur_value.xs,
                                                         field.select_options, 1, <<>>)
                                       ELSE Raise("TypeError")
                           IN  IF conv.k = "raise" THEN conv
                               ELSE convert_from([data_conv EXCEPT ![name] = conv.v],
                                                 fields, j + 1)
                      ELSE convert_from(data_conv, fields, j + 1)
             ELSE convert_from(data_conv, fields, j + 1)

\* _convert_selects: data is a dict (given here as its key -> value function)
_convert_selects(data, fields) == convert_from(data, fields, 1)

\* What the service answers to a single-row write
CreatedRow == PyDict(("id" :> PyInt(4)) @@ ("order" :> PyStr("4.0")))
WriteAnswers ==
    { [status |-> "2xx", body |-> CreatedRow],
      [status |-> "2xx", body |-> PyDict(("order" :> PyStr("4.0")))],
      [status |-> "non2xx", body |-> ErrorBody] }

\* _create_row
_create_row(table_id, data, wa) ==
    [reqs |-> << Req("POST", "row", table_id, 0, 0, data, wa.status, wa.body) >>,
     out |-> IF wa.status # "2xx" THEN Raise("HTTPError")
             ELSE IF "id" \in DOMAIN wa.body.d THEN Return(wa.body.d["id"])
             ELSE Raise("RuntimeError")]

\* _update_row
_update_row(table_id, row_id, data, wa) ==
    [reqs |-> << Req("PATCH", "row", table_id, row_id.i, 0, data, wa.status, wa.body) >>,
     out |-> IF wa.status # "2xx" THEN Raise("HTTPError") ELSE Return(None)]

\* add_data
add_data(c, table_id, data, row_id, fa, wa) ==
    LET g == get_fields(c, table_id, fa)
    IN  IF g.out.k = "raise" THEN g
        ELSE LET data_conv == _convert_selects(data.d, g.out.v)
             IN  IF data_conv.k = "raise"
                 THEN [out |-> data_conv, reqs |-> g.reqs, cache |-> g.cache]
                 ELSE IF Truthy(row_id)
                 THEN LET u == _update_row(table_id, row_id, data_conv.v, wa)
                      IN  [out |-> IF u.out.k = "raise" THEN u.out ELSE Return(row_id),
                           reqs |-> g.reqs \o u.reqs, cache |-> g.cache]
                 ELSE LET n == _create_row(table_id, data_conv.v, wa)
                      IN  [out |-> n.out, reqs |-> g.reqs \o n.reqs, cache |-> g.cache]

\* The row payloads a caller passes to add_data
DataPool ==
    { PyDict(("status" :> PyStr("a")) @@ ("tags" :> PyList(<<PyStr("b"), PyInt(1)>>))),
      PyDict(("status" :> PyInt(2)) @@ ("name" :> PyStr("x"))),
      PyDict(("status" :> PyInt(9))),
      PyDict(("status" :> PyStr("zz")) @@ ("tags" :> PyList(<<PyStr("a")>>))),
      PyDict(("status" :> PyStr("b")) @@ ("tags" :> PyList(<<PyStr("a"), PyStr("zz")>>))),
      PyDict(("status" :> None) @@ ("tags" :> PyList(<<>>))),
      PyDict(("status" :> PyStr("b")) @@ ("calc" :> PyInt(5))),
      PyDict(("grade" :> PyStr("a")) @@ ("tags" :> PyList(<<PyInt(9), PyStr("b")>>))),
      PyDict(("tags" :> PyInt(1))),
      PyDict(("name" :> PyStr("x"))) }

RowIdArgs == {None, PyInt(0), PyInt(1), PyInt(2)}

----------------------------------------------------------------------------
(* Batch write. *)

ErrorTexts == {PyStr("e1"), PyStr("e2")}

\* What the service answers to a batch request: the rows written, a 2xx
\* body without `items`, or an HTTP error with some response text
BatchAnswers ==
    { [status |-> "2xx", body |-> PyDict("items" :> PyList(<<Item(4, "x")>>))],
      [status |-> "2xx", body |-> PyDict("detail" :> PyStr("queued"))] }
        \cup {[status |-> "non2xx", body |-> e] : e \in ErrorTexts}

\* _create_rows / _update_rows: the request, raise_for_status, then
\* [e["id"] for e in data["items"]]
batch_rows(method, table_id, datas, ba) ==
    [reqs |-> << Req(method, "batch", table_id, 0, 0,
                     PyDict("items" :> PyList(datas)), ba.status, ba.body) >>,
     out |-> IF ba.status # "2xx" THEN Raise("HTTPError")
             ELSE IF "items" \notin DOMAIN ba.body.d THEN Raise("KeyError")
             ELSE Return(PyList([i \in DOMAIN ba.body.d["items"].xs |->
                                    ba.body.d["items"].xs[i].d["id"]]))]

_create_rows(table_id, datas, ba) == batch_rows("POST", table_id, datas, ba)
_update_rows(table_id, datas, ba) == batch_rows("PATCH", table_id, datas, ba)

\* no except clause: nothing is caught
caught_nothing(out) == FALSE

\* the partition test by the presence of the key alone
is_update_by_key(entry) == "id" \in DOMAIN entry.d

\* `except requests.HTTPError`: the raises add_data_batch catches
caught(out) == out = Raise("HTTPError")

\* the partition test of add_data_batch
is_update(entry) == Get(entry.d, "id") # None

\* add_data_batch; ca and ua are the service's answers to the create batch
\* and to the update batch
add_data_batch(table_id, entries, ca, ua) ==
    LET entries_update == SelectSeq(entries, is_update)
        entries_new == SelectSeq(entries, LAMBDA e : ~is_update(e))
        n == IF entries_new # <<>> THEN _create_rows(table_id, entries_new, ca)
             ELSE [reqs |-> <<>>, out |-> Return(None)]
        errors1 == IF caught(n.out) THEN <<ca.body>> ELSE <<>>
    IN  IF n.out.k = "raise" /\ ~caught(n.out)
        THEN [out |-> n.out, reqs |-> n.reqs]
        ELSE LET u == IF entries_update # <<>>
                      THEN _update_rows(table_id, entries_update, ua)
                      ELSE [reqs |-> <<>>, out |-> Return(None)]
                 errors == IF caught(u.out)
                           THEN Append(errors1, ua.body) ELSE errors1
             IN  IF u.out.k = "raise" /\ ~caught(u.out)
                 THEN [out |-> u.out, reqs |-> n.reqs \o u.reqs]
                 ELSE [out |-> Return(PyList(errors)), reqs |-> n.reqs \o u.reqs]

\* The entries a caller passes to add_data_batch
EntryPool ==
    { PyDict(("id" :> PyInt(1)) @@ ("name" :> PyStr("x"))),
      PyDict(("id" :> PyInt(2)) @@ ("status" :> PyStr("a"))),
      PyDict(("name" :> PyStr("x"))),
      PyDict(("id" :> None) @@ ("name" :> PyStr("z"))) }

BatchArgs == SeqsUpTo(EntryPool, MaxEntries)

----------------------------------------------------------------------------
(* Values the read path meets on the wire. *)

RawValues ==
    { None, PyStr("a"), PyInt(1), Item(1, "a"), Item(2, "b"),
      PyList(<<>>), PyList(<<Item(1, "a")>>), PyList(<<Item(2, "b"), Item(1, "a")>>) }

FieldKinds == {FStatus, FTags, FPeer, FName, FCalc}

----------------------------------------------------------------------------
(* Actions: one per public call. *)

Idle == [op |-> "idle"]

Init ==
    /\ _fields = <<>>
    /\ call = Idle
    /\ requests = <<>>
    /\ result = Return(None)

FormatValue ==
    \E raw \in RawValues, f \in FieldKinds :
        /\ call = Idle
        /\ call' = [op |-> "format_value", raw |-> raw, field |-> f]
        /\ requests' = <<>>
        /\ result' = format_value(raw, f)
        /\ UNCHANGED _fields

GetFields ==
    \E t \in Tables : \E fa \in FieldsAnswersFor({t} \ DOMAIN _fields) :
        LET g == get_fields(_fields, t, fa)
        IN  /\ call = Idle
            /\ call' = [op |-> "get_fields", table_id |-> t]
            /\ requests' = g.reqs
            /\ result' = g.out
            /\ _fields' = g.cache

WritableFields ==
    \E t \in Tables : \E fa \in FieldsAnswersFor({t} \ DOMAIN _fields) :
        LET g == writable_fields(_fields, t, fa)
        IN  /\ call = Idle
            /\ call' = [op |-> "writable_fields", table_id |-> t]
            /\ requests' = g.reqs
            /\ result' = g.out
            /\ _fields' = g.cache

GetData ==
    \E t \in Tables, writable_only \in BOOLEAN :
        \E fa \in FieldsAnswersFor({t} \ DOMAIN _fields), listing \in Listings[t] :
            LET g == get_data(_fields, t, writable_only, fa, listing)
            IN  /\ call = Idle
                /\ call' = [op |-> "get_data", table_id |-> t,
                            writable_only |-> writable_only, listing |-> listing]
                /\ requests' = g.reqs
                /\ result' = g.out
                /\ _fields' = g.cache

GetEntry ==
    \E fa \in FieldsAnswersFor(Tables \ DOMAIN _fields), failing \in SUBSET Tables :
        \E t \in Tables, entry_id \in RowIds, linked \in BOOLEAN, seen_tables \in SeenArgs :
            LET g == get_entry(_fields, t, entry_id, linked, seen_tables, fa, failing)
            IN  /\ call = Idle
                /\ call' = [op |-> "get_entry", table_id |-> t, entry_id |-> entry_id,
                            linked |-> linked, seen_tables |-> seen_tables,
                            failing |-> failing]
                /\ requests' = g.reqs
                /\ result' = g.out
                /\ _fields' = g.cache

AddData ==
    \E t \in Tables, data \in DataPool, row_id \in RowIdArgs :
        \E fa \in FieldsAnswersFor({t} \ DOMAIN _fields), wa \in WriteAnswers :
            LET g == add_data(_fields, t, data, row_id, fa, wa)
            IN  /\ call = Idle
                /\ call' = [op |-> "add_data", table_id |-> t, data |-> data,
                            row_id |-> row_id]
                /\ requests' = g.reqs
                /\ result' = g.out
                /\ _fields' = g.cache

AddDataBatch ==
    \E t \in Tables, entries \in BatchArgs :
        \E ca \in BatchAnswers, ua \in BatchAnswers :
            LET g == add_data_batch(t, entries, ca, ua)
            IN  /\ call = Idle
                /\ call' = [op |-> "add_data_batch", table_id |-> t,
                            entries |-> entries]
                /\ requests' = g.reqs
                /\ result' = g.out
                /\ UNCHANGED _fields

\* The caller takes the outcome of the call; the client is ready again.
TakeResult ==
    /\ call # Idle
    /\ call' = Idle
    /\ requests' = <<>>
    /\ result' = Return(None)
    /\ UNCHANGED _fields

Next ==
    \/ FormatValue
    \/ GetFields
    \/ WritableFields
    \/ GetData
    \/ GetEntry
    \/ AddData
    \/ AddDataBatch
    \/ TakeResult

Spec == Init /\ [][Next]_vars

----------------------------------------------------------------------------
(* Properties. *)

FieldRequests(reqs, t) ==
    {i \in DOMAIN reqs : reqs[i].kind = "fields" /\ reqs[i].table = t}

\* the create and update requests among reqs, in order
Writes(reqs) == SelectSeq(reqs, LAMBDA r : r.method \in {"POST", "PATCH"})

\* The shape the wire form of a field of the given type has
Shaped(raw, type) ==
    CASE type = "single_select" -> raw.k \in {"dict", "null"}
      [] type \in {"multiple_select", "link_row"} -> raw.k = "list"
      [] OTHER -> TRUE

\* the members `key` of the elements of xs, in order
RECURSIVE Members(_, _)
Members(xs, key) ==
    IF xs = <<>> THEN <<>>
    ELSE <<Head(xs).d[key]>> \o Members(Tail(xs), key)

\* The reference conversion of the read path
RefFormat(raw, type) ==
    CASE type = "single_select" /\ raw.k = "dict" -> Return(raw.d["value"])
      [] type = "single_select" /\ raw.k = "null" -> Return(None)
      [] type = "multiple_select" /\ raw.k = "list" -> Return(PyList(Members(raw.xs, "value")))
      [] type = "link_row" /\ raw.k = "list" -> Return(PyList(Members(raw.xs, "id")))
      [] type \in {"single_select", "multiple_select", "link_row"} -> Raise("RuntimeError")
      [] OTHER -> Return(raw)

\* C9: format_value(raw, field) equals the reference conversion: a
\* single_select object yields its value member, null yields null, any other
\* shape raises; a multiple_select / link_row list yields the value / id
\* members in order, a non-list raises; any other type returns raw unchanged.
C9_FormatValueIsReference ==
    call.op = "format_value" => result = RefFormat(call.raw, call.field.type)

C9_Witness ==
    /\ call.op = "format_value"
    /\ call.field.type = "multiple_select"
    /\ call.raw = PyList(<<Item(2, "b"), Item(1, "a")>>)
    /\ result = Return(PyList(<<PyStr("b"), PyStr("a")>>))

\* every page of the chain is a listing page
WellFormed(listing) == \A i \in DOMAIN listing : "results" \in DOMAIN listing[i].d

\* the rows of pages 1..n, in page order
RECURSIVE RowsOf(_, _)
RowsOf(listing, n) ==
    IF n = 0 THEN <<>> ELSE RowsOf(listing, n - 1) \o listing[n].d["results"].xs

\* the fields get_data formats with, once the table's fields are cached
UsedFields ==
    IF call.writable_only
    THEN SelectSeq(_fields[call.table_id], LAMBDA f : ~f.read_only)
    ELSE _fields[call.table_id]

\* every value of every listed row has the shape of its field
RowsShaped(rows, fields) ==
    \A i \in DOMAIN rows : \A j \in DOMAIN fields :
        fields[j].name \in DOMAIN rows[i].d
            => Shaped(rows[i].d[fields[j].name], fields[j].type)

\* C1: over a chain of listing pages p1..pn linked by `next` (pn's null),
\* get_data requests the pages exactly once each in chain order and stops
\* after pn, and returns a mapping whose key set is exactly the set of row
\* ids on p1..pn.  (It returns whenever the fields are available and the
\* rows' values are well-formed; with no fields it requests no page.)
C1_PaginationUnion ==
    (call.op = "get_data" /\ WellFormed(call.listing)) =>
        LET n == Len(call.listing)
            rows == RowsOf(call.listing, n)
            pages == SelectSeq(requests, LAMBDA r : r.kind = "listing")
        IN  IF call.table_id \notin DOMAIN _fields
            THEN result = Raise("HTTPError") /\ pages = <<>>
            ELSE /\ Len(pages) = n
                 /\ \A i \in 1..n : pages[i].page = i /\ pages[i].table = call.table_id
                 /\ result.k = "return" =>
                        DOMAIN result.v.d = {rows[i].d["id"].i : i \in DOMAIN rows}
                 /\ RowsShaped(rows, UsedFields) => result.k = "return"

C1_Witness ==
    /\ call.op = "get_data"
    /\ WellFormed(call.listing)
    /\ Len(call.listing) = MaxPages
    /\ result.k = "return"
    /\ Cardinality(DOMAIN result.v.d) >= 2
    /\ Len(RowsOf(call.listing, MaxPages)) > Cardinality(DOMAIN result.v.d)

\* C2: once a fields request for table t has succeeded, no later call issues
\* another fields request for t and every later get_fields(t) returns that
\* same list; a failed fields request raises to the caller and leaves the
\* cache without an entry for t, so the next call for t fetches again.
C2_FieldsCachedOnce ==
    [][\A t \in Tables :
          IF t \in DOMAIN _fields
          THEN /\ t \in DOMAIN _fields' /\ _fields'[t] = _fields[t]
               /\ FieldRequests(requests', t) = {}
               /\ (call'.op = "get_fields" /\ call'.table_id = t)
                      => result' = Return(_fields[t])
          ELSE /\ (call'.op \in {"get_fields", "writable_fields", "get_data",
                                 "get_entry", "add_data"} /\ call'.table_id = t)
                      => Cardinality(FieldRequests(requests', t)) = 1
               /\ \A i \in FieldRequests(requests', t) :
                      IF requests'[i].status = "2xx"
                      THEN t \in DOMAIN _fields' /\ _fields'[t] = requests'[i].resp.xs
                      ELSE result' = Raise("HTTPError") /\ t \notin DOMAIN _fields'
               /\ FieldRequests(requests', t) = {} => t \notin DOMAIN _fields'
    ]_vars

C2_Witness ==
    /\ call.op = "get_fields"
    /\ requests = <<>>
    /\ result = Return(_fields[call.table_id])

\* the read-only fields of the table of the last call
ReadOnlyNames ==
    {f.name : f \in {g \in Range(_fields[call.table_id]) : g.read_only}}

\* the writable select fields of the table of the last call
WritableSelects ==
    {f \in Range(_fields[call.table_id]) :
        ~f.read_only /\ f.type \in {"single_select", "multiple_select"}}

\* C3 as stated: no create or update request body of add_data contains a
\* key that names a read-only field.
C3_ReadOnlyNeverSent ==
    call.op = "add_data" =>
        \A r \in Range(Writes(requests)) : DOMAIN r.body.d \cap ReadOnlyNames = {}

\* C3 amended: a value supplied for a read-only field is never converted or
\* altered: every create or update request body of add_data carries that
\* key with exactly the value the caller supplied.
C3_ReadOnlyForwardedUnchanged ==
    call.op = "add_data" =>
        \A r \in Range(Writes(requests)) :
            \A k \in DOMAIN call.data.d \cap ReadOnlyNames :
                k \in DOMAIN r.body.d /\ r.body.d[k] = call.data.d[k]

C3_Witness ==
    /\ call.op = "add_data"
    /\ Writes(requests) # <<>>
    /\ "grade" \in ReadOnlyNames
    /\ "grade" \in DOMAIN call.data.d
    /\ Writes(requests)[1].body.d["grade"] = PyStr("a")

OptionIds(f) == {f.select_options[i].id : i \in DOMAIN f.select_options}
OptionValues(f) == {PyStr(f.select_options[i].value) : i \in DOMAIN f.select_options}

\* the values supplied for select field f: the value itself, or the
\* elements of the list for a multiple_select
Supplied(f) ==
    LET v == call.data.d[f.name]
    IN  IF v = None \/ v = PyList(<<>>) THEN {}
        ELSE IF f.type = "multiple_select"
        THEN IF v.k = "list" THEN Range(v.xs) ELSE {}
        ELSE {v}

\* v is an option's id or equals an option's value
Resolves(v, f) ==
    \/ v.k = "int" /\ v.i \in OptionIds(f)
    \/ v \in OptionValues(f)

\* the select values a write request carries for field f
Sent(r, f) ==
    LET v == r.body.d[f.name]
    IN  IF v = None \/ v = PyList(<<>>) THEN {}
        ELSE IF v.k = "list" THEN Range(v.xs) ELSE {v}

\* C4 as stated: every non-empty select value supplied to add_data must
\* resolve to an option by id or by value; if one does not, add_data raises
\* and sends no write request, so every select value sent is a known id.
C4_SelectsResolve ==
    (call.op = "add_data" /\ call.table_id \in DOMAIN _fields) =>
        /\ (\E f \in WritableSelects :
                f.name \in DOMAIN call.data.d
                    /\ \E v \in Supplied(f) : ~Resolves(v, f))
              => result.k = "raise" /\ Writes(requests) = <<>>
        /\ \A r \in Range(Writes(requests)) : \A f \in WritableSelects :
              f.name \in DOMAIN r.body.d =>
                  \A v \in Sent(r, f) : v.k = "int" /\ v.i \in OptionIds(f)

\* the id of the first option of f whose value is v
IdOf(v, f) ==
    LET hits == {i \in DOMAIN f.select_options : PyStr(f.select_options[i].value) = v}
    IN  PyInt(f.select_options[CHOOSE i \in hits : \A j \in hits : i <= j].id)

\* what is sent for a supplied value: an integer as it is, any other value
\* as the id of the option it names
SentFor(v, f) == IF v.k = "int" THEN v ELSE IdOf(v, f)

\* C4 amended: an integer is taken for an option id and sent unchecked;
\* every other supplied value must equal an option's value, and if one does
\* not, add_data raises and sends no write request; every select value sent
\* is the supplied integer or the id of the option the supplied value names.
C4_NonIntegerSelectsResolve ==
    (call.op = "add_data" /\ call.table_id \in DOMAIN _fields) =>
        /\ (\E f \in WritableSelects :
                f.name \in DOMAIN call.data.d
                    /\ \E v \in Supplied(f) : v.k # "int" /\ v \notin OptionValues(f))
              => result.k = "raise" /\ Writes(requests) = <<>>
        /\ \A r \in Range(Writes(requests)) : \A f \in WritableSelects :
              f.name \in DOMAIN call.data.d =>
                  LET v == call.data.d[f.name]
                      w == r.body.d[f.name]
                  IN  IF v = None \/ v = PyList(<<>>) THEN w = v
                      ELSE IF f.type = "single_select" THEN w = SentFor(v, f)
                      ELSE w = PyList([i \in DOMAIN v.xs |-> SentFor(v.xs[i], f)])

C4_Witness ==
    /\ call.op = "add_data"
    /\ call.table_id \in DOMAIN _fields
    /\ "tags" \in DOMAIN call.data.d
    /\ call.data.d["tags"] = PyList(<<PyStr("a"), PyStr("zz")>>)
    /\ result = Raise("RuntimeError")
    /\ requests = <<>>

\* the conversion of the data of the last add_data call succeeds
ConversionSucceeds ==
    /\ call.table_id \in DOMAIN _fields
    /\ _convert_selects(call.data.d, _fields[call.table_id]).k = "return"

\* C6: when the conversion succeeds, add_data with a row_id (any value other
\* than None) issues exactly one PATCH against that row, no POST, and
\* returns the same row_id; without a row_id it issues exactly one POST and
\* returns the id of the created row, and a 2xx create answer without an
\* `id` raises a malformed-response error.
C6_UpdateIffRowIdGiven ==
    (call.op = "add_data" /\ ConversionSucceeds) =>
        LET w == Writes(requests)
        IN  /\ Len(w) = 1
            /\ IF call.row_id # None
               THEN /\ w[1].method = "PATCH" /\ w[1].row = call.row_id.i
                    /\ result.k = "return" => result.v = call.row_id
               ELSE /\ w[1].method = "POST"
                    /\ w[1].status = "2xx" =>
                          IF "id" \in DOMAIN w[1].resp.d
                          THEN result = Return(w[1].resp.d["id"])
                          ELSE result = Raise("RuntimeError")

\* the tables visited when the last get_entry call reads its link fields:
\* those of seen_tables and the table being read
Visited ==
    {call.table_id} \cup
        (IF call.seen_tables = None THEN {} ELSE Range(call.seen_tables.xs))

\* C10: get_entry(linked=true, seen_tables=S) hydrates a link field only if
\* its target table is neither in S nor the table being read, whether S is
\* omitted, empty or non-empty; a link field whose target was already
\* visited keeps its plain list of ids and no sub-row fetch is issued.
C10_HydrateOnlyUnvisited ==
    (call.op = "get_entry" /\ call.linked /\ call.table_id \in DOMAIN _fields) =>
        /\ \A i \in DOMAIN requests :
              (i > 1 /\ requests[i].kind = "row") => requests[i].table \notin Visited
        /\ result.k = "return" =>
              \A f \in Range(_fields[call.table_id]) :
                  (/\ f.type = "link_row"
                   /\ f.link_row_table_id \in Visited
                   /\ f.name \in DOMAIN result.v.d)
                      => \A e \in Range(result.v.d[f.name].xs) : e.k = "int"

HasId(e) == "id" \in DOMAIN e.d
HasNonNullId(e) == "id" \in DOMAIN e.d /\ e.d["id"] # None

Posts == SelectSeq(requests, LAMBDA r : r.method = "POST")
Patches == SelectSeq(requests, LAMBDA r : r.method = "PATCH")
Items(r) == r.body.d["items"].xs

\* C7 as stated: every entry that has an `id` key is sent in the batch
\* PATCH and in no other request, every entry without one in the batch POST
\* and in no other; unmodified, in input order, at most one request per
\* direction and none for an empty partition.
C7_PartitionByIdKey ==
    call.op = "add_data_batch" =>
        LET upd == SelectSeq(call.entries, HasId)
            new == SelectSeq(call.entries, LAMBDA e : ~HasId(e))
        IN  /\ Len(Posts) = (IF new = <<>> THEN 0 ELSE 1)
            /\ Len(Patches) = (IF upd = <<>> THEN 0 ELSE 1)
            /\ \A r \in Range(Posts) : Items(r) = new
            /\ \A r \in Range(Patches) : Items(r) = upd

\* the create batch was answered 2xx with a body that has no `items`
CreateMalformed ==
    \E r \in Range(Posts) : r.status = "2xx" /\ "items" \notin DOMAIN r.resp.d

\* C7 amended: the partition is by a non-null id: every entry whose `id` is
\* present and not None goes to the batch PATCH and to no other request,
\* every other entry (no `id` key, or `id` None) to the batch POST and to no
\* other; unmodified, in input order, at most one request per direction and
\* none for an empty partition.  The POST is issued whenever its partition
\* is non-empty, the PATCH whenever its partition is non-empty and the
\* create batch did not raise on a malformed 2xx body.
C7_PartitionByNonNullId ==
    call.op = "add_data_batch" =>
        LET upd == SelectSeq(call.entries, HasNonNullId)
            new == SelectSeq(call.entries, LAMBDA e : ~HasNonNullId(e))
        IN  /\ Len(Posts) = (IF new = <<>> THEN 0 ELSE 1)
            /\ Len(Patches) = (IF upd = <<>> \/ CreateMalformed THEN 0 ELSE 1)
            /\ \A r \in Range(Posts) : Items(r) = new
            /\ \A r \in Range(Patches) : Items(r) = upd

C7_Witness ==
    /\ call.op = "add_data_batch"
    /\ \E i \in DOMAIN call.entries : HasId(call.entries[i]) /\ ~HasNonNullId(call.entries[i])
    /\ Len(Posts) = 1 /\ Len(Patches) = 1
    /\ \E i \in DOMAIN Items(Posts[1]) : HasId(Items(Posts[1])[i])

\* the answers with an HTTP error, in request order
Failed == SelectSeq(requests, LAMBDA r : r.status = "non2xx")

\* C8: the create batch and the update batch are attempted independently:
\* an HTTP error on the create batch does not keep the update batch from
\* being issued, and the create batch is issued whatever happens to the
\* update; add_data_batch raises for an HTTP error on neither, and the list
\* it returns holds exactly one response body per batch request that failed
\* with an HTTP error, so it is empty exactly when every issued batch
\* request succeeded.
C8_BatchesIndependent ==
    call.op = "add_data_batch" =>
        LET upd == SelectSeq(call.entries, HasNonNullId)
            new == SelectSeq(call.entries, LAMBDA e : ~HasNonNullId(e))
        IN  /\ result # Raise("HTTPError")
            /\ new # <<>> => Len(Posts) = 1
            /\ (upd # <<>> /\ \E r \in Range(Posts) : r.status = "non2xx")
                  => Len(Patches) = 1
            /\ result.k = "return" =>
                  /\ result.v = PyList([i \in DOMAIN Failed |-> Failed[i].resp])
                  /\ result.v.xs = <<>> <=> \A r \in Range(requests) : r.status = "2xx"

C8_Witness ==
    /\ call.op = "add_data_batch"
    /\ Len(Posts) = 1 /\ Posts[1].status = "non2xx"
    /\ Len(Patches) = 1 /\ Patches[1].status = "2xx"
    /\ result = Return(PyList(<<Posts[1].resp>>))

\* C5: every non-2xx answer to a fields fetch, a single-row fetch, a
\* single-row create or a single-row update makes the call raise an HTTP
\* error and return no value.
C5_Non2xxRaises ==
    \A i \in DOMAIN requests :
        (requests[i].kind \in {"fields", "row"} /\ requests[i].status = "non2xx")
            => result = Raise("HTTPError")

====
